---------------------------- MODULE Spec2Model ----------------------------
(***************************************************************************)
(* A model of backend/main.py: the POST /api/chat handler that renders the *)
(* session context into SYSTEM_PROMPT_TEMPLATE, awaits one reply of the    *)
(* Gemini model, strips Markdown fences from it, validates it with         *)
(* json.loads and relays the parsed value.                                 *)
(*                                                                         *)
(* A Python str is a sequence of one-character strings, so that strip,     *)
(* replace, join, format and json.loads are computed character by          *)
(* character as the interpreter computes them.                             *)
(***************************************************************************)
EXTENDS Integers, Sequences, FiniteSets, TLC

(***************************************************************************)
(* Bounds of the model.                                                    *)
(***************************************************************************)
\* concurrent POST /api/chat requests in flight
NumRequests == 3
\* longest exhaustively enumerated model reply (between the fences)
MaxReplyLen == 5
\* longest exhaustively enumerated chatHistory
MaxTurns == 2

(***************************************************************************)
(* Python str operations.                                                  *)
(***************************************************************************)
\* the character U+0060 (grave accent), which a TLA+ string cannot hold
Backtick == "BACKTICK"

\* the characters str.strip() removes and json.loads skips between tokens
Whitespace == {" ", "\n", "\t", "\r"}

RECURSIVE lstrip(_)
lstrip(s) ==
  IF s # <<>> /\ Head(s) \in Whitespace THEN lstrip(Tail(s)) ELSE s

RECURSIVE rstrip(_)
rstrip(s) ==
  IF s # <<>> /\ s[Len(s)] \in Whitespace
  THEN rstrip(SubSeq(s, 1, Len(s) - 1))
  ELSE s

\* str.strip()
strip(s) == rstrip(lstrip(s))

\* whether old occurs in s at index i
OccursAt(s, i, old) ==
  /\ i + Len(old) - 1 <= Len(s)
  /\ \A k \in 1..Len(old) : s[i + k - 1] = old[k]

\* str.replace(old, new) from index i on: every non-overlapping occurrence,
\* found left to right (old is never empty here)
RECURSIVE replaceFrom(_, _, _, _)
replaceFrom(s, i, old, new) ==
  IF i > Len(s) THEN <<>>
  ELSE IF OccursAt(s, i, old)
       THEN new \o replaceFrom(s, i + Len(old), old, new)
       ELSE <<s[i]>> \o replaceFrom(s, i + 1, old, new)

replace(s, old, new) == replaceFrom(s, 1, old, new)

\* sep.join(parts)
RECURSIVE join(_, _)
join(sep, parts) ==
  IF parts = <<>> THEN <<>>
  ELSE IF Len(parts) = 1 THEN parts[1]
  ELSE parts[1] \o sep \o join(sep, Tail(parts))

(***************************************************************************)
(* json.loads.  A parsed value is a record [t, s, items, keys] of one      *)
(* shape for every JSON type: t is the type, s the characters of a string  *)
(* or the digits of a number or the name of a literal, items the elements  *)
(* of an array or the member values of an object, keys the member names    *)
(* of an object in insertion order (a Python dict).  The texts the model   *)
(* feeds it hold integers only, the escapes \" \\ \/ \n \t \r, and the     *)
(* literals true, false and null.                                          *)
(***************************************************************************)
JsonValue(t, s, items, keys) ==
  [t |-> t, s |-> s, items |-> items, keys |-> keys]

\* the absence of a value (no payload)
NoValue == JsonValue("none", <<>>, <<>>, <<>>)

ParseFail == [ok |-> FALSE, next |-> 0, val |-> NoValue]
ParseOk(next, val) == [ok |-> TRUE, next |-> next, val |-> val]

Digits == {"0", "1", "2", "3", "4", "5", "6", "7", "8", "9"}

\* the characters a backslash may precede, with what each decodes to
Unescape(c) ==
  CASE c = "\"" -> "\""
    [] c = "\\" -> "\\"
    [] c = "/" -> "/"
    [] c = "n" -> "\n"
    [] c = "t" -> "\t"
    [] c = "r" -> "\r"
    [] OTHER -> ""

RECURSIVE SkipWs(_, _)
SkipWs(s, i) ==
  IF i <= Len(s) /\ s[i] \in Whitespace THEN SkipWs(s, i + 1) ELSE i

\* the body of a string from index i (after the opening quote); a raw
\* control character or an unknown escape is a JSONDecodeError
RECURSIVE ScanString(_, _, _)
ScanString(s, i, acc) ==
  IF i > Len(s) THEN ParseFail
  ELSE IF s[i] = "\"" THEN ParseOk(i + 1, JsonValue("str", acc, <<>>, <<>>))
  ELSE IF s[i] = "\\"
       THEN IF i + 1 <= Len(s) /\ Unescape(s[i + 1]) # ""
            THEN ScanString(s, i + 2, Append(acc, Unescape(s[i + 1])))
            ELSE ParseFail
  ELSE IF s[i] \in {"\n", "\t", "\r"} THEN ParseFail
  ELSE ScanString(s, i + 1, Append(acc, s[i]))

RECURSIVE ScanDigits(_, _)
ScanDigits(s, i) ==
  IF i <= Len(s) /\ s[i] \in Digits THEN ScanDigits(s, i + 1) ELSE i

\* an integer -?(0|[1-9][0-9]*); int("-0") is 0
ScanNumber(s, i) ==
  LET j == IF s[i] = "-" THEN i + 1 ELSE i
      k == IF j <= Len(s) /\ s[j] = "0" THEN j + 1 ELSE ScanDigits(s, j)
      text == SubSeq(s, i, k - 1)
  IN  IF k = j THEN ParseFail
      ELSE ParseOk(k, JsonValue("num",
                                IF text = <<"-", "0">> THEN <<"0">> ELSE text,
                                <<>>, <<>>))

ScanLiteral(s, i, word) ==
  IF OccursAt(s, i, word)
  THEN ParseOk(i + Len(word), JsonValue("lit", word, <<>>, <<>>))
  ELSE ParseFail

\* dict[k] = v: a repeated key keeps its place and takes the last value
IndexOf(keys, k) ==
  IF \E n \in 1..Len(keys) : keys[n] = k
  THEN CHOOSE n \in 1..Len(keys) : keys[n] = k
  ELSE 0

PutMember(obj, k, v) ==
  LET n == IndexOf(obj.keys, k)
  IN  IF n = 0
      THEN JsonValue("obj", <<>>, Append(obj.items, v), Append(obj.keys, k))
      ELSE JsonValue("obj", <<>>, [obj.items EXCEPT ![n] = v], obj.keys)

RECURSIVE ParseValue(_, _)
RECURSIVE ParseElements(_, _, _)
RECURSIVE ParseMembers(_, _, _)

\* the elements of an array from index i (at the first character of an
\* element), acc holding the elements read so far
ParseElements(s, i, acc) ==
  LET e == ParseValue(s, i)
      j == SkipWs(s, e.next)
  IN  IF ~e.ok \/ j > Len(s) THEN ParseFail
      ELSE IF s[j] = "]"
           THEN ParseOk(j + 1, JsonValue("arr", <<>>, Append(acc, e.val), <<>>))
      ELSE IF s[j] = ","
           THEN ParseElements(s, SkipWs(s, j + 1), Append(acc, e.val))
      ELSE ParseFail

\* the members of an object from index i (at the quote opening a name)
ParseMembers(s, i, obj) ==
  IF i > Len(s) \/ s[i] # "\"" THEN ParseFail
  ELSE
    LET k == ScanString(s, i + 1, <<>>)
        c == SkipWs(s, k.next)
    IN  IF ~k.ok \/ c > Len(s) \/ s[c] # ":" THEN ParseFail
        ELSE
          LET v == ParseValue(s, SkipWs(s, c + 1))
              j == SkipWs(s, v.next)
          IN  IF ~v.ok \/ j > Len(s) THEN ParseFail
              ELSE IF s[j] = "}"
                   THEN ParseOk(j + 1, PutMember(obj, k.val.s, v.val))
              ELSE IF s[j] = ","
                   THEN ParseMembers(s, SkipWs(s, j + 1),
                                     PutMember(obj, k.val.s, v.val))
              ELSE ParseFail

ParseValue(s, i) ==
  IF i > Len(s) THEN ParseFail
  ELSE IF s[i] = "\"" THEN ScanString(s, i + 1, <<>>)
  ELSE IF s[i] = "[" THEN
    LET j == SkipWs(s, i + 1)
    IN  IF j <= Len(s) /\ s[j] = "]"
        THEN ParseOk(j + 1, JsonValue("arr", <<>>, <<>>, <<>>))
        ELSE ParseElements(s, j, <<>>)
  ELSE IF s[i] = "{" THEN
    LET j == SkipWs(s, i + 1)
    IN  IF j <= Len(s) /\ s[j] = "}"
        THEN ParseOk(j + 1, JsonValue("obj", <<>>, <<>>, <<>>))
        ELSE ParseMembers(s, j, JsonValue("obj", <<>>, <<>>, <<>>))
  ELSE IF s[i] = "-" \/ s[i] \in Digits THEN ScanNumber(s, i)
  ELSE IF s[i] = "t" THEN ScanLiteral(s, i, <<"t", "r", "u", "e">>)
  ELSE IF s[i] = "f" THEN ScanLiteral(s, i, <<"f", "a", "l", "s", "e">>)
  ELSE IF s[i] = "n" THEN ScanLiteral(s, i, <<"n", "u", "l", "l">>)
  ELSE ParseFail

\* json.loads(s): one value between optional whitespace, nothing after it;
\* ok = FALSE stands for json.JSONDecodeError
json_loads(s) ==
  LET r == ParseValue(s, SkipWs(s, 1))
  IN  IF r.ok /\ SkipWs(s, r.next) = Len(s) + 1 THEN r ELSE ParseFail

(***************************************************************************)
(* The string constants of main.py.                                        *)
(***************************************************************************)
\* 'Gemini model not initialized. Check API Key.'
NotInitializedDetail ==
  <<"G", "e", "m", "i", "n", "i", " ", "m", "o", "d", "e", "l", " ", "n", 
    "o", "t", " ", "i", "n", "i", "t", "i", "a", "l", "i", "z", "e", "d", 
    ".", " ", "C", "h", "e", "c", "k", " ", "A", "P", "I", " ", "K", "e", 
    "y", ".">>

\* 'Invalid JSON response from AI model.'
InvalidJsonDetail ==
  <<"I", "n", "v", "a", "l", "i", "d", " ", "J", "S", "O", "N", " ", "r", 
    "e", "s", "p", "o", "n", "s", "e", " ", "f", "r", "o", "m", " ", "A", 
    "I", " ", "m", "o", "d", "e", "l", ".">>

\* 'An unexpected error occurred: ' (the f-string's literal part)
UnexpectedPrefix ==
  <<"A", "n", " ", "u", "n", "e", "x", "p", "e", "c", "t", "e", "d", " ", 
    "e", "r", "r", "o", "r", " ", "o", "c", "c", "u", "r", "r", "e", "d", 
    ":", " ">>

\* 'Not available.'
NotAvailable ==
  <<"N", "o", "t", " ", "a", "v", "a", "i", "l", "a", "b", "l", "e", ".">>

\* 'No previous command output.'
NoPreviousOutput ==
  <<"N", "o", " ", "p", "r", "e", "v", "i", "o", "u", "s", " ", "c", "o", 
    "m", "m", "a", "n", "d", " ", "o", "u", "t", "p", "u", "t", ".">>

\* 'No history yet.'
NoHistoryYet ==
  <<"N", "o", " ", "h", "i", "s", "t", "o", "r", "y", " ", "y", "e", "t", 
    ".">>

\* three backticks and json
FenceJson ==
  <<Backtick, Backtick, Backtick, "j", "s", "o", "n">>

\* three backticks
Fence ==
  <<Backtick, Backtick, Backtick>>

\* ': '
ColonSpace ==
  <<":", " ">>

(***************************************************************************)
(* The request schema.                                                     *)
(***************************************************************************)
\* class ChatMessage: any two strings
ChatMessage(sender, text) == [sender |-> sender, text |-> text]

\* class ChatRequest; valid is FALSE for a body pydantic rejects
ChatRequest(p, history, cwd, tree, out) ==
  [valid |-> TRUE, prompt |-> p, chatHistory |-> history,
   currentWorkingDirectory |-> cwd, fileSystemTree |-> tree,
   terminalOutput |-> out]

\* a body that fails validation against ChatRequest (a field missing or of
\* the wrong type), or no body yet
InvalidBody ==
  [valid |-> FALSE, prompt |-> <<>>, chatHistory |-> <<>>,
   currentWorkingDirectory |-> <<>>, fileSystemTree |-> <<>>,
   terminalOutput |-> <<>>]

(***************************************************************************)
(* The prompt.  A template is a sequence of segments, literal text and     *)
(* replacement fields; str.format puts each keyword argument where the     *)
(* field of its name stands.  The literal texts are abridged.              *)
(***************************************************************************)
Literal(text) == [kind |-> "literal", name |-> text, text |-> <<>>]
Field(name) == [kind |-> "field", name |-> name, text |-> <<>>]

SYSTEM_PROMPT_TEMPLATE ==
  << Literal("You are an expert web developer agent. [...] Current Directory:"),
     Field("currentWorkingDirectory"),
     Literal("File System Listing in Current Directory (ls -l):"),
     Field("fileSystemTree"),
     Literal("Output from the Last Executed Command:"),
     Field("terminalOutput"),
     Literal("Conversation History:"),
     Field("chatHistory"),
     Literal("--- END OF CONTEXT --- [...] One Step at a Time [...]") >>

\* template.format(**kwargs)
format(template, kwargs) ==
  [i \in DOMAIN template |->
     IF template[i].kind = "field"
     THEN [template[i] EXCEPT !.text = kwargs[template[i].name]]
     ELSE template[i]]

\* x or default, for a str x
OrDefault(x, default) == IF x = <<>> THEN default ELSE x

\* f"{msg.sender}: {msg.text}"
FormatMessage(msg) == msg.sender \o ColonSpace \o msg.text

\* the turns joined newest first
format_chat_history_reversed(history) ==
  IF history = <<>> THEN NoHistoryYet
  ELSE join(<<"\n">>,
            [i \in DOMAIN history |->
               history[Len(history) + 1 - i].sender \o <<":", " ">>
                 \o history[Len(history) + 1 - i].text])

format_chat_history(history) ==
  IF history = <<>> THEN NoHistoryYet
  ELSE join(<<"\n">>, [i \in DOMAIN history |-> FormatMessage(history[i])])

\* the keyword arguments of the format call
PromptArguments(request) ==
  [currentWorkingDirectory |-> request.currentWorkingDirectory,
   fileSystemTree |-> OrDefault(request.fileSystemTree, NotAvailable),
   terminalOutput |-> OrDefault(request.terminalOutput, NoPreviousOutput),
   chatHistory |-> format_chat_history(request.chatHistory)]

full_prompt(request) == format(SYSTEM_PROMPT_TEMPLATE, PromptArguments(request))

\* the text substituted for the field called name in a rendered prompt
Section(rendered, name) ==
  LET i == CHOOSE i \in DOMAIN rendered :
             rendered[i].kind = "field" /\ rendered[i].name = name
  IN  rendered[i].text

ContextFields ==
  {"currentWorkingDirectory", "fileSystemTree", "terminalOutput", "chatHistory"}

(***************************************************************************)
(* Exceptions and responses.                                               *)
(***************************************************************************)
\* fastapi.HTTPException(status_code, detail)
HTTPException(status_code, detail) ==
  [type |-> "HTTPException", status_code |-> status_code, detail |-> detail,
   message |-> <<>>]

\* any other exception, str(e) being message
OtherException(type, message) ==
  [type |-> type, status_code |-> 0, detail |-> <<>>, message |-> message]

NoException == OtherException("none", <<>>)

\* what the caller receives: body_key is the one key of the JSON body
Response(status, body_key, detail, payload) ==
  [status |-> status, body_key |-> body_key, detail |-> detail,
   payload |-> payload]

NoResponse == Response(0, "none", <<>>, NoValue)

\* FastAPI's answer to a raised HTTPException
ErrorResponse(e) == Response(e.status_code, "detail", e.detail, NoValue)

\* FastAPI's answer to a body that fails validation; its detail (a list of
\* pydantic errors) is not modelled
ValidationErrorResponse == Response(422, "detail", <<>>, NoValue)

\* return {"response": value}
SuccessResponse(value) == Response(200, "response", <<>>, value)

\* the decimal digits of a status code
StatusDigits(n) ==
  CASE n = 500 -> <<"5", "0", "0">>
    [] n = 422 -> <<"4", "2", "2">>
    [] n = 200 -> <<"2", "0", "0">>
    [] OTHER -> <<>>

(***************************************************************************)
(* The model's answers.                                                    *)
(***************************************************************************)
\* what awaiting generate_content_async comes to: kind "text" (a reply
\* whose .text is text), "raise" (the call raises, str(e) being cause) or
\* "notext" (a reply whose .text raises ValueError(cause))
Outcome(kind, text, cause) == [kind |-> kind, text |-> text, cause |-> cause]
TextReply(text) == Outcome("text", text, <<>>)
NoOutcome == Outcome("none", <<>>, <<>>)

\* response.text.strip().replace(FenceJson, '').replace(Fence, '').strip()
cleaned_response_text(text) ==
  strip(replace(replace(strip(text), FenceJson, <<>>), Fence, <<>>))

(***************************************************************************)
(* The inputs.                                                             *)
(***************************************************************************)
\* 'user'
User ==
  <<"u", "s", "e", "r">>

\* 'agent'
Agent ==
  <<"a", "g", "e", "n", "t">>

\* '429 quota exceeded'
QuotaExceeded ==
  <<"4", "2", "9", " ", "q", "u", "o", "t", "a", " ", "e", "x", "c", "e", 
    "e", "d", "e", "d">>

\* 'response.text requires a valid Part'
NoValidPart ==
  <<"r", "e", "s", "p", "o", "n", "s", "e", ".", "t", "e", "x", "t", " ", 
    "r", "e", "q", "u", "i", "r", "e", "s", " ", "a", " ", "v", "a", "l", 
    "i", "d", " ", "P", "a", "r", "t">>

\* '{"action":"chat","payload":"hi"}'
SampleChat ==
  <<"{", "\"", "a", "c", "t", "i", "o", "n", "\"", ":", "\"", "c", "h", "a", 
    "t", "\"", ",", "\"", "p", "a", "y", "l", "o", "a", "d", "\"", ":", 
    "\"", "h", "i", "\"", "}">>

\* 'not json at all'
SampleNotJson ==
  <<"n", "o", "t", " ", "j", "s", "o", "n", " ", "a", "t", " ", "a", "l", 
    "l">>

\* '{"action":"cd","path":'
SampleTruncated ==
  <<"{", "\"", "a", "c", "t", "i", "o", "n", "\"", ":", "\"", "c", "d", 
    "\"", ",", "\"", "p", "a", "t", "h", "\"", ":">>

\* a file action whose content holds a fence: {"action":"file","path":"a.md","content":"(3 backticks)json"}
SampleFileAction ==
  <<"{", "\"", "a", "c", "t", "i", "o", "n", "\"", ":", "\"", "f", "i", "l", 
    "e", "\"", ",", "\"", "p", "a", "t", "h", "\"", ":", "\"", "a", ".", 
    "m", "d", "\"", ",", "\"", "c", "o", "n", "t", "e", "n", "t", "\"", ":", 
    "\"", Backtick, Backtick, Backtick, "j", "s", "o", "n", "\"", "}">>

\* '{"payload": [1, -0, true, null]}'
SampleNoAction ==
  <<"{", "\"", "p", "a", "y", "l", "o", "a", "d", "\"", ":", " ", "[", "1", 
    ",", " ", "-", "0", ",", " ", "t", "r", "u", "e", ",", " ", "n", "u", 
    "l", "l", "]", "}">>

\* a string with escapes around a fence: "a\\(3 backticks)\""
SampleEscaped ==
  <<"\"", "a", "\\", "\\", Backtick, Backtick, Backtick, "\\", "\"", "\"">>

\* every sequence over alphabet of length at most n
RECURSIVE SeqsUpTo(_, _)
SeqsUpTo(alphabet, n) ==
  IF n = 0 THEN {<<>>}
  ELSE LET shorter == SeqsUpTo(alphabet, n - 1)
       IN  shorter \cup {Append(s, c) : s \in shorter, c \in alphabet}

\* a reply in a fence with the json tag, as the template forbids and the
\* model writes all the same
Fenced(text) == FenceJson \o <<"\n">> \o text \o <<"\n">> \o Fence

Requests == 1..NumRequests

\* the bodies of the concurrent requests: a first turn with no context, and
\* a later turn
BodyBare == ChatRequest(<<"g", "o">>, <<>>, <<>>, <<>>, <<>>)
BodyLater ==
  ChatRequest(<<"g", "o">>,
              <<ChatMessage(User, <<"h", "i">>), ChatMessage(Agent, <<"o", "k">>)>>,
              <<"/">>, <<"a", ".", "m", "d">>, <<"$">>)
Bodies == {BodyBare, BodyLater}

\* the model's answers to the concurrent requests: a fenced empty object,
\* prose, a failed call and a reply without text
Outcomes ==
  {TextReply(Fenced(<<"{", "}">>)), TextReply(<<"o", "k">>),
   Outcome("raise", <<>>, QuotaExceeded),
   Outcome("notext", <<>>, NoValidPart)}

\* the replies of the reply study: every text of at most MaxReplyLen
\* characters over ReplyAlphabet and the samples, bare or wrapped
ReplyAlphabet == {"\"", Backtick, "1", " "}
ReplySamples ==
  {SampleChat, SampleNotJson, SampleTruncated, SampleFileAction,
   SampleNoAction, SampleEscaped}
ReplyInner == SeqsUpTo(ReplyAlphabet, MaxReplyLen) \cup ReplySamples
ReplyWrappers ==
  { <<(<<>>), (<<>>)>>,
    <<FenceJson \o <<"\n">>, <<"\n">> \o Fence>>,
    <<Fence \o <<"\n">>, <<"\n">> \o Fence \o <<"\n">> >>,
    << <<" ">>, <<"\n">> >> }
ReplyOutcomes ==
  {TextReply(w[1] \o inner \o w[2]) : w \in ReplyWrappers, inner \in ReplyInner}
    \cup {Outcome("raise", <<>>, QuotaExceeded),
          Outcome("notext", <<>>, NoValidPart)}

\* the bodies of the rendering study: every combination of empty and
\* non-empty context fields with every history of at most MaxTurns turns
RenderTexts == {<<>>, <<"/", "a">>}
RenderTurns ==
  {ChatMessage(sender, text) :
     sender \in {User, Agent},
     text \in {<<>>, <<"h", "i">>, <<"a", "\n", "b">>}}
RenderHistories == UNION {[1..n -> RenderTurns] : n \in 0..MaxTurns}
RenderBodies ==
  {ChatRequest(<<"g", "o">>, h, cwd, tree, out) :
     h \in RenderHistories, cwd \in RenderTexts, tree \in RenderTexts,
     out \in RenderTexts}
RenderOutcomes == {TextReply(SampleChat), Outcome("raise", <<>>, QuotaExceeded)}

(***************************************************************************)
(* The state.                                                              *)
(***************************************************************************)
VARIABLES
  started,    \* the module has been imported (lines 23-50 have run)
  model,      \* the module-level model of line 45: "None" or "GenerativeModel"
  exc_str,    \* what str() of an HTTPException gives (line 153) in the
              \* installed Starlette: "status: detail", or "" in a release
              \* that precedes its __str__
  pc,         \* each request's place in chat_handler: "idle" (not arrived),
              \* "awaiting" (suspended at line 129) or "done"
  request,    \* each request's validated body (the parameter of line 101)
  sent,       \* each request's prompts passed to generate_content_async
  reply,      \* each request's answer from the model (line 129)
  resp,       \* each request's HTTP response
  log         \* each request's printed texts (lines 109-110, 134-135, 141)

vars == <<started, model, exc_str, pc, request, sent, reply, resp, log>>

LogEntry(tag, text) == [tag |-> tag, text |-> text]

Init ==
  /\ started = FALSE
  /\ model = "None"
  /\ exc_str \in {"status: detail", ""}
  /\ pc = [r \in Requests |-> "idle"]
  /\ request = [r \in Requests |-> InvalidBody]
  /\ sent = [r \in Requests |-> <<>>]
  /\ reply = [r \in Requests |-> NoOutcome]
  /\ resp = [r \in Requests |-> NoResponse]
  /\ log = [r \in Requests |-> <<>>]

(***************************************************************************)
(* The handler's steps.  Some are preceded by a faulty variant of the same *)
(* step, which the properties below must tell from the step itself.        *)
(***************************************************************************)
\* a test that no value of model passes: if model is False
NotModelIsFalse(m) == FALSE

\* if not model
NotModel(m) == m = "None"

\* the call issued again after the first: a retry
generate_content_retried(calls, p) == Append(Append(calls, p), p)

\* await model.generate_content_async(full_prompt): one call
generate_content_async(calls, p) == Append(calls, p)

\* response kept in a module-level variable that every request's
\* coroutine assigns: the handler reads the answer of the lowest-numbered
\* other request that has one
SharedResponse(r, o) ==
  LET others == {q \in Requests \ {r} : reply[q].kind = "text"}
  IN  IF others = {} THEN o
      ELSE reply[CHOOSE q \in others : \A q2 \in others : q <= q2]

\* response, the local the await binds: this request's own answer
AwaitedResponse(r, o) == o

\* the reply is also required to be an object with an action member
IsValidAction(cleaned) ==
  LET parsed == json_loads(cleaned)
  IN  /\ parsed.ok
      /\ parsed.val.t = "obj"
      /\ \E n \in DOMAIN parsed.val.keys :
           parsed.val.keys[n] = <<"a", "c", "t", "i", "o", "n">>

\* json.loads(cleaned_response_text) raises no JSONDecodeError
IsValidJson(cleaned) == json_loads(cleaned).ok

\* the detail quotes the text that failed to parse
OnDecodeErrorEcho(cleaned) ==
  HTTPException(500, InvalidJsonDetail \o <<" ">> \o cleaned)

\* except json.JSONDecodeError: raise HTTPException(500, ...)
OnDecodeError(cleaned) == HTTPException(500, InvalidJsonDetail)

\* str(e)
Str(e) ==
  IF e.type = "HTTPException"
  THEN IF exc_str = ""
       THEN <<>>
       ELSE StatusDigits(e.status_code) \o ColonSpace \o e.detail
  ELSE e.message

\* the cause is dropped from the detail
CatchAllOpaque(e) == HTTPException(500, UnexpectedPrefix)

\* except Exception as e: raise HTTPException(500, f"An unexpected ...")
CatchAll(e) == HTTPException(500, UnexpectedPrefix \o Str(e))

\* the try block from the await on: the exception it raises or the value
\* it returns, and what it prints
TryBlock(o) ==
  IF o.kind = "raise"
  THEN [exc |-> OtherException("Exception", o.cause), ret |-> NoResponse,
        printed |-> <<>>]
  ELSE IF o.kind = "notext"
  THEN [exc |-> OtherException("ValueError", o.cause), ret |-> NoResponse,
        printed |-> <<>>]
  ELSE
    LET cleaned == cleaned_response_text(o.text)
        printed == <<LogEntry("Raw Text", o.text),
                     LogEntry("Cleaned Text", cleaned)>>
    IN  IF IsValidJson(cleaned)
        THEN [exc |-> NoException,
              ret |-> SuccessResponse(json_loads(cleaned).val),
              printed |-> printed]
        ELSE [exc |-> OnDecodeError(cleaned), ret |-> NoResponse,
              printed |-> Append(printed, LogEntry("ERROR", <<>>))]

(***************************************************************************)
(* The actions.                                                            *)
(***************************************************************************)
\* the import of the module: genai.GenerativeModel(...) returns a handle or
\* raises, and model stays None
Startup(handle) ==
  /\ ~started
  /\ started' = TRUE
  /\ model' = handle
  /\ UNCHANGED <<exc_str, pc, request, sent, reply, resp, log>>

\* a POST /api/chat whose body fails validation against ChatRequest:
\* FastAPI answers 422 and never calls chat_handler
Reject(r) ==
  /\ started
  /\ pc[r] = "idle"
  /\ pc' = [pc EXCEPT ![r] = "done"]
  /\ resp' = [resp EXCEPT ![r] = ValidationErrorResponse]
  /\ UNCHANGED <<started, model, exc_str, request, sent, reply, log>>

\* chat_handler from its entry to the await (or to the raise of line 103),
\* called with a body b of bodies that passed validation
Receive(r, bodies) ==
  /\ started
  /\ pc[r] = "idle"
  /\ \E b \in bodies :
       /\ request' = [request EXCEPT ![r] = b]
       /\ IF NotModel(model)
          THEN /\ pc' = [pc EXCEPT ![r] = "done"]
               /\ resp' = [resp EXCEPT ![r] =
                     ErrorResponse(HTTPException(500, NotInitializedDetail))]
               /\ UNCHANGED <<sent, log>>
          ELSE /\ pc' = [pc EXCEPT ![r] = "awaiting"]
               /\ log' = [log EXCEPT ![r] =
                            <<LogEntry("Prompt", b.prompt),
                              LogEntry("CWD", b.currentWorkingDirectory)>>]
               /\ sent' = [sent EXCEPT ![r] =
                             generate_content_async(sent[r], full_prompt(b))]
               /\ UNCHANGED resp
  /\ UNCHANGED <<started, model, exc_str, reply>>

\* chat_handler from the await to its end: the model answers request r with
\* an outcome o of outcomes and the handler runs, without suspending again,
\* to its return or its raise
ModelReturns(r, outcomes) ==
  /\ pc[r] = "awaiting"
  /\ \E o \in outcomes :
       /\ reply' = [reply EXCEPT ![r] = o]
       /\ LET t == TryBlock(AwaitedResponse(r, o))
          IN  /\ log' = [log EXCEPT ![r] = log[r] \o t.printed]
              /\ resp' = [resp EXCEPT ![r] =
                            IF t.exc.type = "none" THEN t.ret
                            ELSE ErrorResponse(CatchAll(t.exc))]
  /\ pc' = [pc EXCEPT ![r] = "done"]
  /\ UNCHANGED <<started, model, exc_str, request, sent>>

Handles == {"None", "GenerativeModel"}

\* concurrent requests
Next ==
  \/ \E h \in Handles : Startup(h)
  \/ \E r \in Requests : Reject(r)
  \/ \E r \in Requests : Receive(r, Bodies)
  \/ \E r \in Requests : ModelReturns(r, Outcomes)

Spec == Init /\ [][Next]_vars

\* one request, every reply of the reply study
NextReply ==
  \/ \E h \in Handles : Startup(h)
  \/ Reject(1)
  \/ Receive(1, {BodyLater})
  \/ ModelReturns(1, ReplyOutcomes)

SpecReply == Init /\ [][NextReply]_vars

\* one request, every body of the rendering study
NextRender ==
  \/ \E h \in Handles : Startup(h)
  \/ Reject(1)
  \/ Receive(1, RenderBodies)
  \/ ModelReturns(1, RenderOutcomes)

SpecRender == Init /\ [][NextRender]_vars

(***************************************************************************)
(* The properties.                                                         *)
(***************************************************************************)
Done(r) == pc[r] = "done"

\* the reply of request r was text whose cleaned form json.loads rejects
Malformed(r) ==
  /\ reply[r].kind = "text"
  /\ ~json_loads(cleaned_response_text(reply[r].text)).ok

\* the handler rendered a prompt for request r
Rendered(r) == sent[r] # <<>>

\* C1: whenever the model's reply, after fence stripping and trimming, is
\* not valid JSON, the caller receives status 500 whose detail is exactly
\* "Invalid JSON response from AI model.", not wrapped, prefixed or replaced.
C1_InvalidJsonDetailExact ==
  \A r \in Requests :
    Done(r) /\ Malformed(r)
      => resp[r] = Response(500, "detail", InvalidJsonDetail, NoValue)

\* C2: each of the four context sections of the rendered prompt is
\* non-empty, an empty field being replaced by its placeholder ("Not
\* available." for currentWorkingDirectory and fileSystemTree, "No previous
\* command output." for terminalOutput, "No history yet." for chatHistory).
C2_NoEmptySection ==
  \A r \in Requests :
    Rendered(r) =>
      LET rendered == sent[r][1]
          b == request[r]
      IN  /\ \A f \in ContextFields : Section(rendered, f) # <<>>
          /\ b.currentWorkingDirectory = <<>>
               => Section(rendered, "currentWorkingDirectory") = NotAvailable
          /\ b.fileSystemTree = <<>>
               => Section(rendered, "fileSystemTree") = NotAvailable
          /\ b.terminalOutput = <<>>
               => Section(rendered, "terminalOutput") = NoPreviousOutput
          /\ b.chatHistory = <<>>
               => Section(rendered, "chatHistory") = NoHistoryYet

\* whether text is a fence with the json tag, a newline, some J, a newline
\* and a closing fence, and that J
FenceOpen == FenceJson \o <<"\n">>
FenceClose == <<"\n">> \o Fence
IsFenced(text) ==
  /\ Len(text) >= Len(FenceOpen) + Len(FenceClose)
  /\ SubSeq(text, 1, Len(FenceOpen)) = FenceOpen
  /\ SubSeq(text, Len(text) - Len(FenceClose) + 1, Len(text)) = FenceClose
Unfenced(text) ==
  SubSeq(text, Len(FenceOpen) + 1, Len(text) - Len(FenceClose))

\* C3: for every valid JSON text J, the reply that wraps J in a fence with
\* the json tag yields a 200 response whose payload is the parse of J
\* itself: the characters inside J, backticks included, are left unchanged.
C3_FenceRoundTrip ==
  \A r \in Requests :
    (/\ Done(r)
     /\ reply[r].kind = "text"
     /\ IsFenced(reply[r].text)
     /\ json_loads(Unfenced(reply[r].text)).ok)
      => resp[r] = SuccessResponse(json_loads(Unfenced(reply[r].text)).val)

\* C4: while the model is None, a request with a schema-valid body ends
\* with status 500 and the detail "Gemini model not initialized. Check API
\* Key."; no prompt is rendered and no model call is made for it.
C4_UninitializedModel ==
  \A r \in Requests :
    model = "None" /\ request[r].valid
      => /\ Done(r)
         /\ resp[r] = Response(500, "detail", NotInitializedDetail, NoValue)
         /\ sent[r] = <<>>
         /\ reply[r] = NoOutcome

C4_Witness ==
  \E r \in Requests :
    /\ model = "None" /\ request[r].valid /\ Done(r)
    /\ resp[r].status = 500

\* C5: a request issues at most one call to the model over its lifetime:
\* exactly one once a valid body met an initialized model, whatever the
\* outcome of the call, and none when the body was rejected (422) or the
\* model is None.
C5_AtMostOneCall ==
  \A r \in Requests :
    /\ Len(sent[r]) <= 1
    /\ request[r].valid /\ model # "None" => Len(sent[r]) = 1
    /\ resp[r].status = 422 \/ model = "None" => Len(sent[r]) = 0

\* a malformed reply and a failed call, each answered after a single call,
\* beside a rejected body with none
C5_Witness ==
  \E r1, r2, r3 \in Requests :
    /\ Done(r1) /\ Malformed(r1) /\ Len(sent[r1]) = 1
    /\ Done(r2) /\ reply[r2].kind = "raise" /\ Len(sent[r2]) = 1
    /\ resp[r3].status = 422 /\ Len(sent[r3]) = 0

\* C6: when the model call fails (it raises, or its reply has no readable
\* text), that very step ends the request with a status 500 response that
\* carries the stringified cause; no further call is issued.
C6_FailureEnds500 ==
  [][\A r \in Requests :
       pc[r] = "awaiting" /\ reply'[r].kind \in {"raise", "notext"}
         => /\ pc'[r] = "done"
            /\ resp'[r] = Response(500, "detail",
                                   UnexpectedPrefix \o reply'[r].cause, NoValue)
            /\ sent'[r] = sent[r]]_vars

C6_Witness ==
  \E r1, r2 \in Requests :
    /\ Done(r1) /\ reply[r1].kind = "raise" /\ resp[r1].status = 500
    /\ Done(r2) /\ reply[r2].kind = "notext" /\ resp[r2].status = 500

\* text.split("\n")
RECURSIVE SplitLines(_, _)
SplitLines(text, current) ==
  IF text = <<>> THEN <<current>>
  ELSE IF Head(text) = "\n" THEN <<current>> \o SplitLines(Tail(text), <<>>)
  ELSE SplitLines(Tail(text), Append(current, Head(text)))

Lines(text) == SplitLines(text, <<>>)

\* the line a turn is meant to render as
TurnLine(msg) == msg.sender \o <<":", " ">> \o msg.text

HasNewline(text) == \E i \in DOMAIN text : text[i] = "\n"

\* where the text of turn i starts in the rendered history
RECURSIVE TurnOffset(_, _)
TurnOffset(history, i) ==
  IF i = 1 THEN 1
  ELSE TurnOffset(history, i - 1) + Len(TurnLine(history[i - 1])) + 1

\* C7 as claimed: a history of n >= 1 turns renders as exactly n lines, the
\* i-th being "<sender>: <text>" of the i-th turn, for every sender and text
\* the schema accepts.
C7_OneLinePerTurn ==
  \A r \in Requests :
    Rendered(r) /\ request[r].chatHistory # <<>>
      => Lines(Section(sent[r][1], "chatHistory"))
           = [i \in DOMAIN request[r].chatHistory |->
                TurnLine(request[r].chatHistory[i])]

\* C7 as amended: a history of n >= 1 turns renders as the n texts
\* "<sender>: <text>" in the original order, each after the first preceded
\* by one newline and nothing else; these are exactly the n lines of the
\* rendering whenever no sender and no text holds a newline.
C7_TurnsInOrder ==
  \A r \in Requests :
    Rendered(r) /\ request[r].chatHistory # <<>>
      => LET h == request[r].chatHistory
             section == Section(sent[r][1], "chatHistory")
             n == Len(h)
         IN  /\ Len(section) = TurnOffset(h, n) + Len(TurnLine(h[n])) - 1
             /\ \A i \in 1..n :
                  /\ SubSeq(section, TurnOffset(h, i),
                            TurnOffset(h, i) + Len(TurnLine(h[i])) - 1)
                       = TurnLine(h[i])
                  /\ i > 1 => section[TurnOffset(h, i) - 1] = "\n"
             /\ (\A i \in 1..n :
                   ~HasNewline(h[i].sender) /\ ~HasNewline(h[i].text))
                  => Lines(section) = [i \in 1..n |-> TurnLine(h[i])]

\* two different turns without newlines rendered as two lines
C7_Witness ==
  \E r \in Requests :
    /\ Rendered(r)
    /\ Len(request[r].chatHistory) = 2
    /\ request[r].chatHistory[1] # request[r].chatHistory[2]
    /\ \A i \in 1..2 : ~HasNewline(request[r].chatHistory[i].text)
    /\ Len(Lines(Section(sent[r][1], "chatHistory"))) = 2

\* C8: a 200 response is returned exactly when the cleaned reply parses as
\* JSON, and its body is then {"response": v} with v the parsed value of
\* the cleaned reply, whatever that value is: nothing is added, removed or
\* checked.
C8_PassThrough ==
  \A r \in Requests :
    Done(r) =>
      /\ resp[r].status = 200
           <=> reply[r].kind = "text" /\ ~Malformed(r)
      /\ resp[r].status = 200
           => resp[r] = Response(200, "response", <<>>,
                  json_loads(cleaned_response_text(reply[r].text)).val)

\* an object without an action member passed through
C8_Witness ==
  \E r \in Requests :
    /\ Done(r) /\ resp[r].status = 200
    /\ resp[r].payload.t = "obj"
    /\ resp[r].payload.keys = << <<"p", "a", "y", "l", "o", "a", "d">> >>

\* the response to a malformed reply: fixed by the installed library alone
MalformedReplyResponse ==
  Response(500, "detail",
           IF exc_str = "" THEN UnexpectedPrefix
           ELSE UnexpectedPrefix \o <<"5", "0", "0", ":", " ">>
                  \o InvalidJsonDetail,
           NoValue)

\* C9: when the cleaned reply is not valid JSON, the response is one fixed
\* error that no character of the raw or cleaned reply enters (any two
\* malformed replies are answered alike); the reply text reaches the log
\* only.
C9_MalformedNotForwarded ==
  \A r \in Requests :
    Done(r) /\ Malformed(r)
      => /\ resp[r] = MalformedReplyResponse
         /\ \E i \in DOMAIN log[r] :
              log[r][i] = LogEntry("Raw Text", reply[r].text)

\* a malformed reply that is not empty, answered and logged
C9_Witness ==
  \E r \in Requests :
    /\ Done(r) /\ Malformed(r)
    /\ cleaned_response_text(reply[r].text) # <<>>
    /\ resp[r].status = 500

\* any two finished requests with the same body and the same model reply
\* have the same response
SameInputsSameResponse ==
  \A r1, r2 \in Requests :
    (/\ Done(r1) /\ Done(r2)
     /\ request[r1] = request[r2]
     /\ reply[r1] = reply[r2])
      => resp[r1] = resp[r2]

\* C10: requests are independent under every interleaving: once the module
\* is imported no step writes model, a step of one request leaves every
\* other request's state alone, and a request's response depends on its own
\* body and its own model reply only, in whatever order the calls complete.
C10_Independent ==
  /\ []SameInputsSameResponse
  /\ [][started => model' = model]_vars
  /\ [][\A r \in Requests :
          pc'[r] # pc[r] =>
            \A q \in Requests \ {r} :
              /\ request'[q] = request[q] /\ sent'[q] = sent[q]
              /\ reply'[q] = reply[q] /\ resp'[q] = resp[q]]_vars

\* two requests with the same body and the same reply have finished while a
\* third is suspended at the model call
C10_Witness ==
  \E r1, r2, r3 \in Requests :
    /\ r1 # r2
    /\ Done(r1) /\ Done(r2) /\ pc[r3] = "awaiting"
    /\ request[r1].valid /\ request[r1] = request[r2]
    /\ reply[r1].kind = "text" /\ reply[r1] = reply[r2]
    /\ resp[r1].status = 200

=============================================================================
